---- MODULE Spec2Model ----
(***************************************************************************)
(* A model of the C boundary of to-wit (src/lib.rs): a parsed interface    *)
(* document (WIT), its function descriptors, the three cursor iterators,   *)
(* the type descriptors with their cached subtypes, the signature          *)
(* accessors, and the session error slot with the ffi_return! wrapper.     *)
(*                                                                         *)
(* Conventions.  Vec/slice positions are 0-based at the boundary, as in    *)
(* the source; TLA+ sequences are 1-based, so position i of a Vec v is     *)
(* v[i + 1] and a type id n of the source is id n + 1 here.  Option<T> is  *)
(* a sequence: <<>> is None and <<x>> is Some(x).  The external parser and *)
(* the ABI calculator are not part of the repository: what they return is  *)
(* an input, drawn from the bounded sets below.                            *)
(***************************************************************************)
EXTENDS Integers, Sequences, FiniteSets, TLC

VARIABLES
    catch_panics,   \* cargo feature "catch_panics" of the build (fixed per run)
    crashed,        \* a panic or a null dereference left the boundary
    wit,            \* the Box<WIT> handed out by wit_parse
    iters,          \* the live Box<WITTypeDefIter/WITFieldIter/WITCaseIter>
    sessErr,        \* WITSession.error of every session
    out,            \* the caller's location behind the output parameter
    last,           \* the most recent boundary call and what it returned
    calls,          \* history: successful *_iter_next calls per live iterator
    budget,         \* calls the caller has left in a bounded run (-1: no bound)
    held,           \* a type descriptor handle the caller has kept, if any
    strong,         \* strong counts of Rc<Interface> and Rc<SizeAlign> (Cell<usize>)
    tpc,            \* per thread: position inside a read-only operation
    treg            \* per thread: the strong count it has loaded

vars == <<catch_panics, crashed, wit, iters, sessErr, out, last, calls, budget,
          held, strong, tpc, treg>>

seqvars == <<catch_panics, crashed, wit, iters, sessErr, out, last, calls, budget,
            held>>
concvars == <<strong, tpc, treg>>

-----------------------------------------------------------------------------
(* Bounds *)

MaxFuncs == 2       \* functions in a parsed interface
MaxIters == 2       \* iterators alive at once
MaxCalls == 3       \* calls of a run of Spec; operations the threads of SpecConc start
NumThreads == 2     \* threads reading one document

-----------------------------------------------------------------------------
(* Handles.  Null is 0 for sessions, documents and iterators, the empty    *)
(* string for function descriptors and signatures (named by the key of     *)
(* their entry in WIT.funcs) and the empty tuple for type descriptors.     *)

NULL == 0
NULLF == ""
NULLTD == <<>>
WITPTR == 1        \* the address of the one Box<WIT>
RES == 1            \* the address of the caller's output location

Sessions == {1, 2}  \* the sessions wit_session_new has returned
IterIds == 1 .. MaxIters
Threads == 1 .. NumThreads

-----------------------------------------------------------------------------
(* parser::Type and parser::TypeDefKind *)

Prim(t) == [tag |-> t, id |-> 0]
Id(n) == [tag |-> "Id", id |-> n]
Handle(n) == [tag |-> "Handle", id |-> n]

NoType == Prim("Unit")

TD(kind, elems, ty1, ty2) == [kind |-> kind, elems |-> elems, ty1 |-> ty1, ty2 |-> ty2]
Elem(name, ty) == [name |-> name, ty |-> ty]

\* iface.types of every interface of the model: a finite acyclic table.
\*   1  record point { x: s32, y: s32 }
\*   2  list<point>
\*   3  list<list<point>>
\*   4  expected<shape, errno>
\*   5  variant shape { none, some(point) }
\*   6  type errno = u32           (TypeDefKind::Type)
\*   7  record empty {}
\*   8  variant never {}
iface_types ==
    << TD("Record", <<Elem("x", Prim("S32")), Elem("y", Prim("S32"))>>, NoType, NoType),
       TD("List", <<>>, Id(1), NoType),
       TD("List", <<>>, Id(2), NoType),
       TD("Expected", <<>>, Id(5), Id(6)),
       TD("Variant", <<Elem("none", Prim("Unit")), Elem("some", Id(1))>>, NoType, NoType),
       TD("Type", <<>>, Prim("U32"), NoType),
       TD("Record", <<>>, NoType, NoType),
       TD("Variant", <<>>, NoType, NoType) >>

\* abi::WasmSignature as computed by Interface::wasm_signature
Sig(params, results, indirect_params, retptr) ==
    [params |-> params, results |-> results,
     indirect_params |-> indirect_params, retptr |-> retptr]

\* parser::Function with the signature the ABI calculator gives it
Fn(name, params, result, sig) ==
    [name |-> name, params |-> params, result |-> result, sig |-> sig]

\* The functions an interface is made of.  Two of them share the name
\* "area": the parser is a black box, and a parser that lets a name be
\* defined twice returns an interface holding both.
FuncPool ==
    { Fn("area", <<Elem("p", Id(1))>>, Prim("S64"),
         Sig(<<"I32", "I32">>, <<"I64">>, FALSE, FALSE)),
      Fn("zero", <<>>, Id(7),
         Sig(<<>>, <<>>, FALSE, FALSE)),
      Fn("area", <<Elem("a", Handle(1)), Elem("b", Id(3)), Elem("c", Id(4))>>, Id(8),
         Sig(<<"I32", "I32", "I32", "I32", "I32", "F64">>, <<"I32">>, FALSE, TRUE)) }

SeqsUpTo(S, n) == UNION { [1 .. k -> S] : k \in 0 .. n }

\* iface.functions of the interfaces the parser may return
Interfaces == SeqsUpTo(FuncPool, MaxFuncs)

UniqueNames(fns) ==
    \A i, j \in 1 .. Len(fns) : fns[i].name = fns[j].name => i = j

-----------------------------------------------------------------------------
(* WITTypeDef and the subtype resolver *)

RECURSIVE subtypedef_get_maybe(_, _)

\* A WITTypeDef whose subtypes are resolved one level deep only
WITTypeDef_shallow(name, ty) ==
    LET kind == iface_types[ty.id]
        leaf(n, t) == <<[name |-> n, ty |-> t, subty1 |-> <<>>, subty2 |-> <<>>]>>
    IN [name |-> name, ty |-> ty,
        subty1 |-> IF ty.tag # "Id" THEN <<>>
                   ELSE IF kind.kind = "List" THEN leaf("", kind.ty1)
                   ELSE IF kind.kind = "Expected" THEN leaf("ok", kind.ty1)
                   ELSE <<>>,
        subty2 |-> IF ty.tag # "Id" THEN <<>>
                   ELSE IF kind.kind = "Expected" THEN leaf("err", kind.ty2)
                   ELSE <<>>]

\* WITTypeDef { name, ty, subty1, subty2 } as every construction site builds
\* it; iface and align are clones of the document's Rc and carry no state
\* of their own.
WITTypeDef(name, ty) ==
    [name |-> name, ty |-> ty,
     subty1 |-> subtypedef_get_maybe(1, <<ty>>),
     subty2 |-> subtypedef_get_maybe(2, <<ty>>)]

\* A resolver that answers the element type of a list for either slot
subtypedef_get_maybe_anyslot(which, ty_opt) ==
    IF ty_opt = <<>> THEN <<>>
    ELSE LET ty == ty_opt[1] IN
         IF ty.tag = "Id"
         THEN LET kind == iface_types[ty.id] IN
              CASE kind.kind = "List" -> <<WITTypeDef("", kind.ty1)>>
                [] which = 1 /\ kind.kind = "Expected" -> <<WITTypeDef("ok", kind.ty1)>>
                [] which = 2 /\ kind.kind = "Expected" -> <<WITTypeDef("err", kind.ty2)>>
                [] OTHER -> <<>>
         ELSE <<>>

subtypedef_get_maybe(which, ty_opt) ==
    IF ty_opt = <<>> THEN <<>>
    ELSE LET ty == ty_opt[1] IN
         IF ty.tag = "Id"
         THEN LET kind == iface_types[ty.id] IN
              CASE which = 1 /\ kind.kind = "List" -> <<WITTypeDef("", kind.ty1)>>
                [] which = 1 /\ kind.kind = "Expected" -> <<WITTypeDef("ok", kind.ty1)>>
                [] which = 2 /\ kind.kind = "Expected" -> <<WITTypeDef("err", kind.ty2)>>
                [] OTHER -> <<>>
         ELSE <<>>

-----------------------------------------------------------------------------
(* anyhow errors, Result<()> and the session error slot *)

\* An anyhow::Error by its message: the format text, its argument, and
\* whether the rendered text holds an interior NUL byte (CString::new
\* rejects such a text).
Msg(text, arg, nul) == [text |-> text, arg |-> arg, nul |-> nul]

InvalidArguments == Msg("Invalid arguments", "", FALSE)
InvalidArgument == Msg("Invalid argument", "", FALSE)
NotFound(name) == Msg("Function {} not found", name, FALSE)
OutOfBounds == Msg("Iterator out of bounds!", "", FALSE)
OutOfBoundsNext == Msg("Iterator out of bounds", "", FALSE)
Utf8Error == Msg("invalid utf-8 sequence", "", FALSE)
ParseError(nul) == Msg("parser error", "", nul)
CaughtPanic == Msg("Caught Rust panic: {:?}", "Any { .. }", FALSE)
Unsupported == Msg("Unsupported type", "", FALSE)

\* The location behind the output parameter as the caller leaves it before
\* every call: a marker no operation writes.
Unwritten == <<"unwritten">>

\* What the inner function of an operation did: returned Ok(()) after
\* writing val through the output parameter (wr), returned Err(msg), or
\* panicked.
Ok(val) == [kind |-> "Ok", msg |-> InvalidArgument, wr |-> TRUE, val |-> val]
OkNoOut == [kind |-> "Ok", msg |-> InvalidArgument, wr |-> FALSE, val |-> Unwritten]
Err(msg) == [kind |-> "Err", msg |-> msg, wr |-> FALSE, val |-> Unwritten]
Panic == [kind |-> "Panic", msg |-> CaughtPanic, wr |-> FALSE, val |-> Unwritten]

None == <<>>
Some(x) == <<x>>

\* error_set: the slot afterwards and the value returned
error_set(error, err) ==
    IF err.nul
    THEN [error |-> error, ret |-> FALSE]
    ELSE [error |-> Some(err), ret |-> TRUE]

\* A check that keeps one error slot for the process: an error is seen by
\* every session
check_global(s, r) ==
    IF r.kind = "Err"
    THEN [ret |-> "false", crash |-> FALSE,
          errs |-> IF s # NULL
                   THEN [b \in Sessions |-> error_set(sessErr[b], r.msg).error]
                   ELSE sessErr]
    ELSE [ret |-> "true", crash |-> FALSE, errs |-> sessErr]

\* check: the boolean returned and every session's slot afterwards
check(s, r) ==
    IF r.kind = "Err"
    THEN [ret |-> "false", crash |-> FALSE,
          errs |-> IF s # NULL
                   THEN [sessErr EXCEPT ![s] = error_set(@, r.msg).error]
                   ELSE sessErr]
    ELSE [ret |-> "true", crash |-> FALSE, errs |-> sessErr]

\* What leaves the process dead or undefined: nothing is returned.
Crash == [ret |-> "none", crash |-> TRUE, errs |-> sessErr]

\* ffi_return!: with the feature, catch_unwind around check and error_set on
\* *s for a caught panic (a null s is dereferenced); without it, check alone,
\* and a panic unwinds out of the extern "C" function.
ffi_return(s, r) ==
    IF r.kind = "Panic"
    THEN IF catch_panics
         THEN IF s = NULL
              THEN Crash
              ELSE [ret |-> "false", crash |-> FALSE,
                    errs |-> [sessErr EXCEPT ![s] = error_set(@, CaughtPanic).error]]
         ELSE Crash
    ELSE check(s, r)

wit_error_get(s) ==
    IF s = NULL THEN None ELSE sessErr[s]

\* The caller makes one more call, if its run still has one.
Unbounded == 0 - 1
CanCall == ~crashed /\ budget # 0
Spend == budget' = IF budget = Unbounded THEN budget ELSE budget - 1

\* One call of a fallible boundary operation: the wrapper's effect on the
\* session, the write through the output parameter, and the record of the
\* call (err: the error the call failed with, for a call that returned
\* false).
Boundary(op, s, args, r) ==
    LET o == ffi_return(s, r) IN
    /\ CanCall
    /\ sessErr' = o.errs
    /\ crashed' = o.crash
    /\ out' = IF r.wr THEN r.val ELSE Unwritten
    /\ last' = [op |-> op, s |-> s, args |-> args, ret |-> o.ret,
                err |-> IF o.ret # "false" THEN None
                        ELSE IF r.kind = "Panic" THEN Some(CaughtPanic) ELSE Some(r.msg)]
    /\ Spend
    /\ UNCHANGED <<catch_panics, held, concvars>>

\* A call of an operation that returns nothing or a plain bool
Plain(op, s, args, ret) ==
    /\ CanCall
    /\ out' = Unwritten
    /\ last' = [op |-> op, s |-> s, args |-> args, ret |-> ret, err |-> None]
    /\ Spend
    /\ UNCHANGED <<catch_panics, crashed, held, concvars>>

-----------------------------------------------------------------------------
(* The document: wit_parse, wit_delete and the function lookups *)

\* WITFunction { name, sig, index, res } as wit_parse builds it for
\* functions[i] (index is the 0-based position i - 1)
WITFunction(f, i) ==
    [name |-> f.name, sig |-> f.sig, index |-> i - 1, res |-> WITTypeDef("", f.result)]

RECURSIVE insert_funcs_skip_last(_, _, _)
\* A loop that stops one function short (for i in 0..funcs.len() - 1)
insert_funcs_skip_last(funcs, fns, i) ==
    IF i >= Len(fns) THEN funcs
    ELSE insert_funcs_skip_last((fns[i].name :> WITFunction(fns[i], i)) @@ funcs,
                                fns, i + 1)

RECURSIVE insert_funcs(_, _, _)

\* The loop of wit_parse: HashMap::insert of every function under its name,
\* a later insert replacing the entry of an equal name.
insert_funcs(funcs, fns, i) ==
    IF i > Len(fns) THEN funcs
    ELSE insert_funcs((fns[i].name :> WITFunction(fns[i], i)) @@ funcs, fns, i + 1)

\* WIT { iface, funcs, align }: iface by its functions (its types are
\* iface_types); live tells whether the Box exists.
WIT(fns) == [live |-> TRUE, functions |-> fns, funcs |-> insert_funcs(<<>>, fns, 1)]
NoWit == [live |-> FALSE, functions |-> <<>>, funcs |-> <<>>]

\* The bytes handed to wit_parse, by what becomes of them: a null pointer,
\* bytes that are not UTF-8, text the parser rejects (its message quotes the
\* offending line, which may hold a NUL byte), text the parser accepts.
Content(k, nul, fns) == [k |-> k, nul |-> nul, fns |-> fns]
Contents ==
    { Content("null", FALSE, <<>>), Content("badutf8", FALSE, <<>>),
      Content("reject", FALSE, <<>>), Content("reject", TRUE, <<>>) }
    \cup { Content("ok", FALSE, fns) : fns \in Interfaces }

_wit_parse(content, res) ==
    IF content.k = "null" \/ res = NULL THEN Err(InvalidArguments)
    ELSE IF content.k = "badutf8" THEN Err(Utf8Error)
    ELSE IF content.k = "reject" THEN Err(ParseError(content.nul))
    ELSE Ok(<<"wit", WITPTR>>)

wit_parse(s, content, res) ==
    LET r == _wit_parse(content, res) IN
    /\ CanCall
    /\ r.kind = "Ok" => ~wit.live
    /\ Boundary("wit_parse", s, <<content.k, res>>, r)
    /\ wit' = IF r.kind = "Ok" THEN WIT(content.fns) ELSE wit
    /\ UNCHANGED <<iters, calls>>

NoIter == [kind |-> "none", seq |-> <<>>, idx |-> 0, item |-> None]

\* The caller disposes of the iterators of a document before the document.
wit_delete(s, w) ==
    /\ CanCall
    /\ w # NULL => \A h \in IterIds : iters[h] = NoIter
    /\ Plain("wit_delete", s, <<w>>, "none")
    /\ wit' = IF w = NULL THEN wit ELSE NoWit
    /\ UNCHANGED <<iters, calls, sessErr>>

wit_error_clear(s) ==
    /\ Plain("wit_error_clear", s, <<>>, "none")
    /\ sessErr' = IF s = NULL THEN sessErr ELSE [sessErr EXCEPT ![s] = None]
    /\ UNCHANGED <<wit, iters, calls>>

_wit_func_name_get(func, res) ==
    IF func = NULLF \/ res = NULL THEN Err(InvalidArguments)
    ELSE Ok(<<"cstr", wit.funcs[func].name>>)

wit_func_name_get(s, func, res) ==
    /\ Boundary("wit_func_name_get", s, <<func, res>>, _wit_func_name_get(func, res))
    /\ UNCHANGED <<wit, iters, calls>>

_wit_func_count_get(w, res) ==
    IF w = NULL \/ res = NULL THEN Err(InvalidArguments)
    ELSE Ok(<<"usize", Len(wit.functions)>>)

wit_func_count_get(s, w, res) ==
    /\ Boundary("wit_func_count_get", s, <<w, res>>, _wit_func_count_get(w, res))
    /\ UNCHANGED <<wit, iters, calls>>

_wit_func_get_by_index(w, index, res) ==
    IF w = NULL \/ res = NULL THEN Err(InvalidArguments)
    ELSE IF index >= Len(wit.functions) THEN Panic
    ELSE LET name == wit.functions[index + 1].name IN
         IF name \in DOMAIN wit.funcs
         THEN Ok(<<"func", name>>)
         ELSE Err(NotFound(name))

wit_func_get_by_index(s, w, index, res) ==
    /\ Boundary("wit_func_get_by_index", s, <<w, index, res>>,
                _wit_func_get_by_index(w, index, res))
    /\ UNCHANGED <<wit, iters, calls>>

\* A C string that is not UTF-8
BADUTF8 == "<not utf-8>"

_wit_func_get_by_name(w, fname, res) ==
    IF w = NULL \/ fname = NULLF \/ res = NULL THEN Err(InvalidArguments)
    ELSE IF fname = BADUTF8 THEN Err(Utf8Error)
    ELSE IF fname \in DOMAIN wit.funcs
         THEN Ok(<<"func", fname>>)
         ELSE Err(NotFound(fname))

\* A lookup that takes the entry out of the map (HashMap::remove for get)
wit_func_get_by_name_evicting(s, w, fname, res) ==
    LET r == _wit_func_get_by_name(w, fname, res) IN
    /\ Boundary("wit_func_get_by_name", s, <<w, fname, res>>, r)
    /\ wit' = IF r.kind = "Ok"
              THEN [wit EXCEPT !.funcs = [n \in DOMAIN wit.funcs \ {fname} |-> wit.funcs[n]]]
              ELSE wit
    /\ UNCHANGED <<iters, calls>>

wit_func_get_by_name(s, w, fname, res) ==
    /\ Boundary("wit_func_get_by_name", s, <<w, fname, res>>,
                _wit_func_get_by_name(w, fname, res))
    /\ UNCHANGED <<wit, iters, calls>>

-----------------------------------------------------------------------------
(* What a caller may pass *)

SessArgs == Sessions \cup {NULL}
ResArgs == {RES, NULL}
WitArgs == IF wit.live THEN {WITPTR, NULL} ELSE {NULL}
FuncArgs == IF wit.live THEN DOMAIN wit.funcs \cup {NULLF} ELSE {NULLF}
NameArgs == { f.name : f \in FuncPool } \cup {"nope", BADUTF8, NULLF}
IndexArgs == 0 .. MaxFuncs

-----------------------------------------------------------------------------
(* The cursor iterators *)

\* An iterator that steps over one element at each call
slice_next_skipping(seq, idx) ==
    IF idx + 1 < Len(seq)
    THEN [next |-> Some(seq[idx + 2]), idx |-> idx + 2]
    ELSE [next |-> None, idx |-> Len(seq)]

\* core::slice::Iter::next on the slice seq with idx elements consumed
slice_next(seq, idx) ==
    IF idx < Len(seq)
    THEN [next |-> Some(seq[idx + 1]), idx |-> idx + 1]
    ELSE [next |-> None, idx |-> idx]

\* item: Option<WITTypeDef> built from what inner_iter.next() returned
item_of(next) ==
    IF next = None THEN None ELSE Some(WITTypeDef(next[1].name, next[1].ty))

\* WITTypeDefIter / WITFieldIter / WITCaseIter { inner_iter, item } as the
\* walk operations create it: the first element already pulled
\* A walk that builds its iterator without pulling the first element
new_iter_unpositioned(kind, seq) ==
    [kind |-> kind, seq |-> seq, idx |-> 0, item |-> None]

new_iter(kind, seq) ==
    LET n == slice_next(seq, 0) IN
    [kind |-> kind, seq |-> seq, idx |-> n.idx, item |-> item_of(n.next)]

\* A next that resolves the subtypes of the element it moves to only when no
\* other iterator stands on that element (one subtype cache per element,
\* taken by the first iterator to arrive)
advance_sharing(it) ==
    LET n == slice_next(it.seq, it.idx)
        item == item_of(n.next)
        taken == \E g \in IterIds :
                    iters[g].seq = it.seq /\ iters[g].idx = n.idx /\ iters[g].item # None
    IN [it EXCEPT !.idx = n.idx,
                  !.item = IF item = None \/ ~taken THEN item
                           ELSE Some([item[1] EXCEPT !.subty1 = None, !.subty2 = None])]

\* The iterator after the body of a *_iter_next that passed its checks
advance(it) ==
    LET n == slice_next(it.seq, it.idx) IN
    [it EXCEPT !.idx = n.idx, !.item = item_of(n.next)]

\* The addresses Box::new may return for a new iterator
FreeIters(ids) == { h \in ids : iters[h] = NoIter }
IterArgs(kind) == { h \in IterIds : iters[h].kind = kind } \cup {NULL}

\* A type descriptor handle names its owner (an iterator's item, or the res
\* of a function descriptor) and the path of subty1/subty2 boxes below it.
TdOfIter(h) == <<"iter", h, <<>>>>
TdOfFunc(name) == <<"func", name, <<>>>>

_wit_func_param_walk(func, res, h) ==
    IF func = NULLF \/ res = NULL THEN Err(InvalidArgument)
    ELSE Ok(<<"iter", h>>)

wit_func_param_walk(s, func, res, h) ==
    LET r == _wit_func_param_walk(func, res, h) IN
    /\ Boundary("wit_func_param_walk", s, <<func, res>>, r)
    /\ iters' = IF r.kind = "Ok"
                THEN [iters EXCEPT ![h] =
                        new_iter("typedef",
                                 wit.functions[wit.funcs[func].index + 1].params)]
                ELSE iters
    /\ calls' = IF r.kind = "Ok" THEN [calls EXCEPT ![h] = 0] ELSE calls
    /\ UNCHANGED wit

_wit_func_result_get(func, res) ==
    IF func = NULLF \/ res = NULL THEN Err(InvalidArgument)
    ELSE Ok(<<"td", TdOfFunc(func)>>)

wit_func_result_get(s, func, res) ==
    /\ Boundary("wit_func_result_get", s, <<func, res>>, _wit_func_result_get(func, res))
    /\ UNCHANGED <<wit, iters, calls>>

\* A wit_typedef_iter_off without the safe default for a null iterator
wit_typedef_iter_off_nullfalse(iter) ==
    IF iter = NULL THEN FALSE ELSE iters[iter].item = None

wit_typedef_iter_off(iter) ==
    IF iter = NULL THEN TRUE ELSE iters[iter].item = None

\* A wit_typedef_iter_next that forgets to refuse an exhausted iterator
_wit_typedef_iter_next_unchecked(iter) ==
    IF iter = NULL THEN Err(InvalidArgument) ELSE OkNoOut

_wit_typedef_iter_next(iter) ==
    IF iter = NULL THEN Err(InvalidArgument)
    ELSE IF wit_typedef_iter_off(iter) THEN Err(OutOfBounds)
    ELSE OkNoOut

\* A next on an inner iterator that the walks of one function share: every
\* iterator over the same parameters moves
wit_typedef_iter_next_shared(s, iter) ==
    LET r == _wit_typedef_iter_next(iter) IN
    /\ Boundary("wit_typedef_iter_next", s, <<iter>>, r)
    /\ iters' = IF r.kind = "Ok"
                THEN [g \in IterIds |->
                        IF iters[g].kind = "typedef" /\ iters[g].seq = iters[iter].seq
                        THEN advance(iters[g]) ELSE iters[g]]
                ELSE iters
    /\ calls' = IF r.kind = "Ok" THEN [calls EXCEPT ![iter] = @ + 1] ELSE calls
    /\ UNCHANGED wit

wit_typedef_iter_next(s, iter) ==
    LET r == _wit_typedef_iter_next(iter) IN
    /\ Boundary("wit_typedef_iter_next", s, <<iter>>, r)
    /\ iters' = IF r.kind = "Ok" THEN [iters EXCEPT ![iter] = advance(@)] ELSE iters
    /\ calls' = IF r.kind = "Ok" THEN [calls EXCEPT ![iter] = @ + 1] ELSE calls
    /\ UNCHANGED wit

_wit_typedef_iter_at(iter, res) ==
    IF iter = NULL \/ res = NULL THEN Err(InvalidArgument)
    ELSE IF iters[iter].item # None THEN Ok(<<"td", TdOfIter(iter)>>)
    ELSE Err(OutOfBounds)

wit_typedef_iter_at(s, iter, res) ==
    /\ Boundary("wit_typedef_iter_at", s, <<iter, res>>, _wit_typedef_iter_at(iter, res))
    /\ UNCHANGED <<wit, iters, calls>>

\* Box::from_raw and drop of a non-null iterator
iter_delete(iter) ==
    /\ iters' = IF iter = NULL THEN iters ELSE [iters EXCEPT ![iter] = NoIter]
    /\ calls' = IF iter = NULL THEN calls ELSE [calls EXCEPT ![iter] = 0]

\* A parameter iterator that owns what it walks (into_iter for iter): its
\* drop takes the parameters out of the functions it was created over
wit_typedef_iter_delete_draining(s, iter) ==
    /\ Plain("wit_typedef_iter_delete", s, <<iter>>, "none")
    /\ iter_delete(iter)
    /\ wit' = IF iter = NULL THEN wit
              ELSE [wit EXCEPT !.functions =
                      [i \in DOMAIN wit.functions |->
                         IF wit.functions[i].params = iters[iter].seq
                         THEN [wit.functions[i] EXCEPT !.params = <<>>]
                         ELSE wit.functions[i]]]
    /\ UNCHANGED sessErr

wit_typedef_iter_delete(s, iter) ==
    /\ Plain("wit_typedef_iter_delete", s, <<iter>>, "none")
    /\ iter_delete(iter)
    /\ UNCHANGED <<wit, sessErr>>

\* wit_typedef_iter_off as a call: a plain bool, no session access
wit_typedef_iter_off_call(s, iter) ==
    /\ Plain("wit_typedef_iter_off", s, <<iter>>,
             IF wit_typedef_iter_off(iter) THEN "true" ELSE "false")
    /\ UNCHANGED <<wit, iters, calls, sessErr>>

-----------------------------------------------------------------------------
(* Type descriptors *)

RECURSIVE td_follow(_, _)
\* The WITTypeDef reached from td through the subty1/subty2 boxes of path
td_follow(td, path) ==
    IF path = <<>> THEN td
    ELSE td_follow(IF Head(path) = 1 THEN td.subty1[1] ELSE td.subty2[1], Tail(path))

\* The WITTypeDef behind a handle the caller holds
td_deref(h) ==
    td_follow(IF h[1] = "iter" THEN iters[h[2]].item[1] ELSE wit.funcs[h[2]].res, h[3])

RECURSIVE td_paths(_)
\* Every path of boxes below td
td_paths(td) ==
    {<<>>}
    \cup (IF td.subty1 = None THEN {} ELSE { <<1>> \o p : p \in td_paths(td.subty1[1]) })
    \cup (IF td.subty2 = None THEN {} ELSE { <<2>> \o p : p \in td_paths(td.subty2[1]) })

\* The type descriptor handles that are valid to pass
TdArgs ==
    {NULLTD}
    \cup UNION { { <<"iter", h, p>> : p \in td_paths(iters[h].item[1]) } :
                 h \in { i \in IterIds : iters[i].item # None } }
    \cup (IF wit.live
          THEN UNION { { <<"func", n, p>> : p \in td_paths(wit.funcs[n].res) } :
                       n \in DOMAIN wit.funcs }
          ELSE {})

MustBeRecord == Msg("Invalid parameter.  Must be record type!", "", FALSE)
MustBeVariantTag == Msg("Invalid argument; must be a Variant type", "", FALSE)
MustBeVariant == Msg("Invalid argument.  Must be a variant type!", "", FALSE)
MustBeList == Msg("Invalid parameter.  Must be list type!", "", FALSE)
MustBeExpected == Msg("Invalid parameter.  Must be 'expected' type!", "", FALSE)
NoElemType == Msg("Could not determine array element type!", "", FALSE)

\* iface.types[id].kind of a descriptor whose ty is Type::Id(id)
kind_of(td) == iface_types[td.ty.id]

\* A wit_record_field_walk that takes a list for a record
_wit_record_field_walk_lax(td, res, h) ==
    IF td = NULLTD \/ res = NULL THEN Err(InvalidArgument)
    ELSE IF td_deref(td).ty.tag = "Id"
         THEN IF kind_of(td_deref(td)).kind \in {"Record", "List"}
              THEN Ok(<<"iter", h>>)
              ELSE Err(MustBeRecord)
         ELSE Err(OutOfBounds)

_wit_record_field_walk(td, res, h) ==
    IF td = NULLTD \/ res = NULL THEN Err(InvalidArgument)
    ELSE IF td_deref(td).ty.tag = "Id"
         THEN IF kind_of(td_deref(td)).kind = "Record"
              THEN Ok(<<"iter", h>>)
              ELSE Err(MustBeRecord)
         ELSE Err(OutOfBounds)

wit_record_field_walk(s, td, res, h) ==
    LET r == _wit_record_field_walk(td, res, h) IN
    /\ Boundary("wit_record_field_walk", s, <<td, res>>, r)
    /\ iters' = IF r.kind = "Ok"
                THEN [iters EXCEPT ![h] = new_iter("field", kind_of(td_deref(td)).elems)]
                ELSE iters
    /\ calls' = IF r.kind = "Ok" THEN [calls EXCEPT ![h] = 0] ELSE calls
    /\ UNCHANGED wit

wit_field_iter_off(iter) ==
    IF iter = NULL THEN TRUE ELSE iters[iter].item = None

_wit_field_iter_next(iter) ==
    IF iter = NULL THEN Err(InvalidArgument)
    ELSE IF wit_field_iter_off(iter) THEN Err(OutOfBoundsNext)
    ELSE OkNoOut

wit_field_iter_next(s, iter) ==
    LET r == _wit_field_iter_next(iter) IN
    /\ Boundary("wit_field_iter_next", s, <<iter>>, r)
    /\ iters' = IF r.kind = "Ok" THEN [iters EXCEPT ![iter] = advance(@)] ELSE iters
    /\ calls' = IF r.kind = "Ok" THEN [calls EXCEPT ![iter] = @ + 1] ELSE calls
    /\ UNCHANGED wit

_wit_field_iter_at(iter, res) ==
    IF iter = NULL \/ res = NULL THEN Err(InvalidArgument)
    ELSE IF iters[iter].item # None THEN Ok(<<"td", TdOfIter(iter)>>)
    ELSE Err(OutOfBounds)

wit_field_iter_at(s, iter, res) ==
    /\ Boundary("wit_field_iter_at", s, <<iter, res>>, _wit_field_iter_at(iter, res))
    /\ UNCHANGED <<wit, iters, calls>>

wit_field_iter_delete(s, iter) ==
    /\ Plain("wit_field_iter_delete", s, <<iter>>, "none")
    /\ iter_delete(iter)
    /\ UNCHANGED <<wit, sessErr>>

wit_field_iter_off_call(s, iter) ==
    /\ Plain("wit_field_iter_off", s, <<iter>>,
             IF wit_field_iter_off(iter) THEN "true" ELSE "false")
    /\ UNCHANGED <<wit, iters, calls, sessErr>>

\* Variant::tag() of the parser, as the byte width wit_variant_tag_get maps
\* it to
tag_bytes(ncases) ==
    IF ncases <= 256 THEN 1
    ELSE IF ncases <= 65536 THEN 2
    ELSE 4      \* 8 takes more cases than a Vec of this model holds

_wit_variant_tag_get(td, res) ==
    IF td = NULLTD \/ res = NULL THEN Err(InvalidArgument)
    ELSE IF td_deref(td).ty.tag = "Id"
         THEN IF kind_of(td_deref(td)).kind = "Variant"
              THEN Ok(<<"u8", tag_bytes(Len(kind_of(td_deref(td)).elems))>>)
              ELSE Err(MustBeVariantTag)
         ELSE Err(MustBeVariantTag)

wit_variant_tag_get(s, td, res) ==
    /\ Boundary("wit_variant_tag_get", s, <<td, res>>, _wit_variant_tag_get(td, res))
    /\ UNCHANGED <<wit, iters, calls>>

_wit_variant_case_walk(td, res, h) ==
    IF td = NULLTD \/ res = NULL THEN Err(InvalidArgument)
    ELSE IF td_deref(td).ty.tag = "Id"
         THEN IF kind_of(td_deref(td)).kind = "Variant"
              THEN Ok(<<"iter", h>>)
              ELSE Err(MustBeVariant)
         ELSE Err(OutOfBounds)

wit_variant_case_walk(s, td, res, h) ==
    LET r == _wit_variant_case_walk(td, res, h) IN
    /\ Boundary("wit_variant_case_walk", s, <<td, res>>, r)
    /\ iters' = IF r.kind = "Ok"
                THEN [iters EXCEPT ![h] = new_iter("case", kind_of(td_deref(td)).elems)]
                ELSE iters
    /\ calls' = IF r.kind = "Ok" THEN [calls EXCEPT ![h] = 0] ELSE calls
    /\ UNCHANGED wit

wit_case_iter_off(iter) ==
    IF iter = NULL THEN TRUE ELSE iters[iter].item = None

\* A wit_case_iter_next that forgets to refuse an exhausted iterator
_wit_case_iter_next_unchecked(iter) ==
    IF iter = NULL THEN Err(InvalidArgument) ELSE OkNoOut

_wit_case_iter_next(iter) ==
    IF iter = NULL THEN Err(InvalidArgument)
    ELSE IF wit_case_iter_off(iter) THEN Err(OutOfBoundsNext)
    ELSE OkNoOut

wit_case_iter_next(s, iter) ==
    LET r == _wit_case_iter_next(iter) IN
    /\ Boundary("wit_case_iter_next", s, <<iter>>, r)
    /\ iters' = IF r.kind = "Ok" THEN [iters EXCEPT ![iter] = advance(@)] ELSE iters
    /\ calls' = IF r.kind = "Ok" THEN [calls EXCEPT ![iter] = @ + 1] ELSE calls
    /\ UNCHANGED wit

_wit_case_iter_at(iter, res) ==
    IF iter = NULL \/ res = NULL THEN Err(InvalidArgument)
    ELSE IF iters[iter].item # None THEN Ok(<<"td", TdOfIter(iter)>>)
    ELSE Err(OutOfBounds)

wit_case_iter_at(s, iter, res) ==
    /\ Boundary("wit_case_iter_at", s, <<iter, res>>, _wit_case_iter_at(iter, res))
    /\ UNCHANGED <<wit, iters, calls>>

wit_case_iter_delete(s, iter) ==
    /\ Plain("wit_case_iter_delete", s, <<iter>>, "none")
    /\ iter_delete(iter)
    /\ UNCHANGED <<wit, sessErr>>

wit_case_iter_off_call(s, iter) ==
    /\ Plain("wit_case_iter_off", s, <<iter>>,
             IF wit_case_iter_off(iter) THEN "true" ELSE "false")
    /\ UNCHANGED <<wit, iters, calls, sessErr>>

-----------------------------------------------------------------------------
(* Cached subtypes, name, layout and kind of a type descriptor *)

\* The handle of the box subty1 (which = 1) or subty2 (which = 2) of td
sub_handle(td, which) == <<td[1], td[2], Append(td[3], which)>>

_wit_expected_typedef_get(get_ok, td, res) ==
    IF td = NULLTD \/ res = NULL THEN Err(InvalidArgument)
    ELSE IF td_deref(td).ty.tag = "Id"
         THEN IF kind_of(td_deref(td)).kind = "Expected"
              THEN LET subty_opt == IF get_ok THEN td_deref(td).subty1
                                             ELSE td_deref(td).subty2 IN
                   IF subty_opt # None
                   THEN Ok(<<"td", sub_handle(td, IF get_ok THEN 1 ELSE 2)>>)
                   ELSE Err(NoElemType)
              ELSE Err(MustBeList)
         ELSE Err(MustBeExpected)

wit_expected_ok_typedef_get(s, td, res) ==
    /\ Boundary("wit_expected_ok_typedef_get", s, <<td, res>>,
                _wit_expected_typedef_get(TRUE, td, res))
    /\ UNCHANGED <<wit, iters, calls>>

wit_expected_err_typedef_get(s, td, res) ==
    /\ Boundary("wit_expected_err_typedef_get", s, <<td, res>>,
                _wit_expected_typedef_get(FALSE, td, res))
    /\ UNCHANGED <<wit, iters, calls>>

\* A wit_array_elem_typedef_get that answers for any type with a first
\* subtype, the ok type of an expected included
_wit_array_elem_typedef_get_anysub(td, res) ==
    IF td = NULLTD \/ res = NULL THEN Err(InvalidArgument)
    ELSE IF td_deref(td).ty.tag = "Id"
         THEN IF td_deref(td).subty1 # None
              THEN Ok(<<"td", sub_handle(td, 1)>>)
              ELSE Err(MustBeList)
         ELSE Err(MustBeList)

_wit_array_elem_typedef_get(td, res) ==
    IF td = NULLTD \/ res = NULL THEN Err(InvalidArgument)
    ELSE IF td_deref(td).ty.tag = "Id"
         THEN IF kind_of(td_deref(td)).kind = "List"
              THEN IF td_deref(td).subty1 # None
                   THEN Ok(<<"td", sub_handle(td, 1)>>)
                   ELSE Err(NoElemType)
              ELSE Err(MustBeList)
         ELSE Err(MustBeList)

wit_array_elem_typedef_get(s, td, res) ==
    /\ Boundary("wit_array_elem_typedef_get", s, <<td, res>>,
                _wit_array_elem_typedef_get(td, res))
    /\ UNCHANGED <<wit, iters, calls>>

_wit_typedef_name_get(td, res) ==
    IF td = NULLTD \/ res = NULL THEN Err(InvalidArgument)
    ELSE Ok(<<"cstr", td_deref(td).name>>)

wit_typedef_name_get(s, td, res) ==
    /\ Boundary("wit_typedef_name_get", s, <<td, res>>, _wit_typedef_name_get(td, res))
    /\ UNCHANGED <<wit, iters, calls>>

\* SizeAlign of the ABI calculator, filled from the interface: <<size, align>>
\* of every type of the model
size_align(ty) ==
    CASE ty.tag \in {"Unit"} -> <<0, 1>>
      [] ty.tag \in {"Bool", "U8", "S8"} -> <<1, 1>>
      [] ty.tag \in {"U16", "S16"} -> <<2, 2>>
      [] ty.tag \in {"U32", "S32", "Float32", "Char", "Handle"} -> <<4, 4>>
      [] ty.tag \in {"U64", "S64", "Float64"} -> <<8, 8>>
      [] ty.tag = "String" -> <<8, 4>>
      [] ty.tag = "Id" ->
           CASE ty.id = 1 -> <<8, 4>>
             [] ty.id \in {2, 3} -> <<8, 4>>
             [] ty.id = 4 -> <<12, 4>>
             [] ty.id = 5 -> <<12, 4>>
             [] ty.id = 6 -> <<4, 4>>
             [] ty.id = 7 -> <<0, 1>>
             [] ty.id = 8 -> <<1, 1>>

_wit_typedef_align_get(td, res) ==
    IF td = NULLTD \/ res = NULL THEN Err(InvalidArgument)
    ELSE Ok(<<"usize", size_align(td_deref(td).ty)[2]>>)

wit_typedef_align_get(s, td, res) ==
    /\ Boundary("wit_typedef_align_get", s, <<td, res>>, _wit_typedef_align_get(td, res))
    /\ UNCHANGED <<wit, iters, calls>>

_wit_typedef_size_get(td, res) ==
    IF td = NULLTD \/ res = NULL THEN Err(InvalidArgument)
    ELSE Ok(<<"usize", size_align(td_deref(td).ty)[1]>>)

wit_typedef_size_get(s, td, res) ==
    /\ Boundary("wit_typedef_size_get", s, <<td, res>>, _wit_typedef_size_get(td, res))
    /\ UNCHANGED <<wit, iters, calls>>

PrimTags ==
    {"Unit", "Bool", "U8", "U16", "U32", "U64", "S8", "S16", "S32", "S64",
     "Float32", "Float64", "Char", "String"}
MappedKinds ==
    {"Flags", "Expected", "Option", "Union", "Enum", "Tuple", "Record", "List", "Variant"}

\* A mapper that takes a resource handle for the 32-bit integer it travels as
WITType_handle_u32(ty) ==
    IF ty.tag \in PrimTags THEN ty.tag
    ELSE IF ty.tag = "Handle" THEN "U32"
    ELSE IF iface_types[ty.id].kind \in MappedKinds THEN iface_types[ty.id].kind
    ELSE "Unknown"

\* The WITType the match of wit_typedef_type_get computes
WITType(ty) ==
    IF ty.tag \in PrimTags THEN ty.tag
    ELSE IF ty.tag = "Handle" THEN "Unknown"
    ELSE IF iface_types[ty.id].kind \in MappedKinds THEN iface_types[ty.id].kind
    ELSE "Unknown"

\* A wit_typedef_type_get that stores the computed tag before it rejects it
_wit_typedef_type_get_eager(td, res) ==
    IF td = NULLTD \/ res = NULL THEN Err(InvalidArgument)
    ELSE IF WITType(td_deref(td).ty) = "Unknown"
         THEN [Err(Unsupported) EXCEPT !.wr = TRUE, !.val = <<"WITType", "Unknown">>]
         ELSE Ok(<<"WITType", WITType(td_deref(td).ty)>>)

_wit_typedef_type_get(td, res) ==
    IF td = NULLTD \/ res = NULL THEN Err(InvalidArgument)
    ELSE IF WITType(td_deref(td).ty) = "Unknown" THEN Err(Unsupported)
    ELSE Ok(<<"WITType", WITType(td_deref(td).ty)>>)

wit_typedef_type_get(s, td, res) ==
    /\ Boundary("wit_typedef_type_get", s, <<td, res>>, _wit_typedef_type_get(td, res))
    /\ UNCHANGED <<wit, iters, calls>>

-----------------------------------------------------------------------------
(* Signatures.  A signature handle is the address of the sig field of a    *)
(* function descriptor, named like the descriptor.                         *)

_wit_func_sig_get(func, res) ==
    IF func = NULLF \/ res = NULL THEN Err(InvalidArgument)
    ELSE Ok(<<"sig", func>>)

wit_func_sig_get(s, func, res) ==
    /\ Boundary("wit_func_sig_get", s, <<func, res>>, _wit_func_sig_get(func, res))
    /\ UNCHANGED <<wit, iters, calls>>

SigParts == {"Params", "Results"}

_wit_sig_is_indirect(sig, part, res) ==
    IF sig = NULLF \/ res = NULL THEN Err(InvalidArgument)
    ELSE Ok(<<"bool", IF part = "Params" THEN wit.funcs[sig].sig.indirect_params
                                         ELSE wit.funcs[sig].sig.retptr>>)

wit_sig_is_indirect(s, sig, part, res) ==
    /\ Boundary("wit_sig_is_indirect", s, <<sig, part, res>>,
                _wit_sig_is_indirect(sig, part, res))
    /\ UNCHANGED <<wit, iters, calls>>

\* The Vec<WasmType> a WITSigPart selects
sig_part(sig, part) ==
    IF part = "Params" THEN wit.funcs[sig].sig.params ELSE wit.funcs[sig].sig.results

_wit_sig_length_get(sig, part, res) ==
    IF sig = NULLF \/ res = NULL THEN Err(InvalidArgument)
    ELSE Ok(<<"usize", Len(sig_part(sig, part))>>)

wit_sig_length_get(s, sig, part, res) ==
    /\ Boundary("wit_sig_length_get", s, <<sig, part, res>>,
                _wit_sig_length_get(sig, part, res))
    /\ UNCHANGED <<wit, iters, calls>>

\* impl From<abi::WasmType> for WASMType
WASMType_from(t) ==
    CASE t = "I32" -> "I32"
      [] t = "I64" -> "I64"
      [] t = "F32" -> "F32"
      [] t = "F64" -> "F64"

_wit_sig_type_get_by_index(sig, part, idx, res) ==
    IF sig = NULLF \/ res = NULL THEN Err(InvalidArgument)
    ELSE IF idx >= Len(sig_part(sig, part)) THEN Panic
    ELSE Ok(<<"WASMType", WASMType_from(sig_part(sig, part)[idx + 1])>>)

wit_sig_type_get_by_index(s, sig, part, idx, res) ==
    /\ Boundary("wit_sig_type_get_by_index", s, <<sig, part, idx, res>>,
                _wit_sig_type_get_by_index(sig, part, idx, res))
    /\ UNCHANGED <<wit, iters, calls>>

-----------------------------------------------------------------------------
(* The operations by component.  S: the session handles the caller passes, *)
(* R: the output pointers, H: the addresses a new iterator may get.        *)

SigArgs == FuncArgs
SigIdxArgs(sig, part) == IF sig = NULLF THEN {0} ELSE 0 .. Len(sig_part(sig, part))

DocOps(S, R) ==
    \E s \in S, res \in R :
        \/ \E content \in Contents : wit_parse(s, content, res)
        \/ \E w \in WitArgs : wit_delete(s, w)
        \/ wit_error_clear(s)
        \/ \E func \in FuncArgs : wit_func_name_get(s, func, res)
        \/ \E w \in WitArgs : wit_func_count_get(s, w, res)
        \/ \E w \in WitArgs, index \in IndexArgs : wit_func_get_by_index(s, w, index, res)
        \/ \E w \in WitArgs, fname \in NameArgs : wit_func_get_by_name(s, w, fname, res)

ParamCursorOps(S, R, H) ==
    \E s \in S, res \in R :
        \/ \E func \in FuncArgs, h \in FreeIters(H) : wit_func_param_walk(s, func, res, h)
        \/ \E iter \in IterArgs("typedef") : wit_typedef_iter_off_call(s, iter)
        \/ \E iter \in IterArgs("typedef") : wit_typedef_iter_next(s, iter)
        \/ \E iter \in IterArgs("typedef") : wit_typedef_iter_at(s, iter, res)
        \/ \E iter \in IterArgs("typedef") : wit_typedef_iter_delete(s, iter)

FieldCursorOps(S, R, H) ==
    \E s \in S, res \in R :
        \/ \E td \in TdArgs, h \in FreeIters(H) : wit_record_field_walk(s, td, res, h)
        \/ \E iter \in IterArgs("field") : wit_field_iter_off_call(s, iter)
        \/ \E iter \in IterArgs("field") : wit_field_iter_next(s, iter)
        \/ \E iter \in IterArgs("field") : wit_field_iter_at(s, iter, res)
        \/ \E iter \in IterArgs("field") : wit_field_iter_delete(s, iter)

CaseCursorOps(S, R, H) ==
    \E s \in S, res \in R :
        \/ \E td \in TdArgs, h \in FreeIters(H) : wit_variant_case_walk(s, td, res, h)
        \/ \E iter \in IterArgs("case") : wit_case_iter_off_call(s, iter)
        \/ \E iter \in IterArgs("case") : wit_case_iter_next(s, iter)
        \/ \E iter \in IterArgs("case") : wit_case_iter_at(s, iter, res)
        \/ \E iter \in IterArgs("case") : wit_case_iter_delete(s, iter)

TypeOps(S, R) ==
    \E s \in S, res \in R :
        \/ \E func \in FuncArgs : wit_func_result_get(s, func, res)
        \/ \E td \in TdArgs : wit_variant_tag_get(s, td, res)
        \/ \E td \in TdArgs : wit_expected_ok_typedef_get(s, td, res)
        \/ \E td \in TdArgs : wit_expected_err_typedef_get(s, td, res)
        \/ \E td \in TdArgs : wit_array_elem_typedef_get(s, td, res)
        \/ \E td \in TdArgs : wit_typedef_name_get(s, td, res)
        \/ \E td \in TdArgs : wit_typedef_align_get(s, td, res)
        \/ \E td \in TdArgs : wit_typedef_size_get(s, td, res)
        \/ \E td \in TdArgs : wit_typedef_type_get(s, td, res)

SigOps(S, R) ==
    \E s \in S, res \in R :
        \/ \E func \in FuncArgs : wit_func_sig_get(s, func, res)
        \/ \E sig \in SigArgs, part \in SigParts : wit_sig_is_indirect(s, sig, part, res)
        \/ \E sig \in SigArgs, part \in SigParts : wit_sig_length_get(s, sig, part, res)
        \/ \E sig \in SigArgs, part \in SigParts :
              \E idx \in SigIdxArgs(sig, part) :
                 wit_sig_type_get_by_index(s, sig, part, idx, res)

\* The caller of the main runs: one session, or none
MainSess == {1, NULL}

-----------------------------------------------------------------------------
(* Spec: every operation, any arguments, in runs of at most MaxCalls calls *)

NoCall == [op |-> "wit_session_new", s |-> NULL, args |-> <<>>, ret |-> "none", err |-> None]

\* The two reference-counted values of a document: WIT.iface and WIT.align
RcNames == {"iface", "align"}

InitConcIdle ==
    /\ strong = [rc \in RcNames |-> 0]
    /\ tpc = [t \in Threads |-> "idle"]
    /\ treg = [t \in Threads |-> 0]

InitBoundary(b) ==
    /\ catch_panics \in BOOLEAN
    /\ crashed = FALSE
    /\ wit = NoWit
    /\ iters = [h \in IterIds |-> NoIter]
    /\ sessErr = [s \in Sessions |-> None]
    /\ out = Unwritten
    /\ last = NoCall
    /\ calls = [h \in IterIds |-> 0]
    /\ budget = b
    /\ held = None
    /\ InitConcIdle

Init == InitBoundary(MaxCalls)

Next ==
    \/ DocOps(MainSess, ResArgs)
    \/ ParamCursorOps(MainSess, ResArgs, IterIds)
    \/ FieldCursorOps(MainSess, ResArgs, IterIds)
    \/ CaseCursorOps(MainSess, ResArgs, IterIds)
    \/ TypeOps(MainSess, ResArgs)
    \/ SigOps(MainSess, ResArgs)

Spec == Init /\ [][Next]_vars

-----------------------------------------------------------------------------
(* SpecDoc: the document operations and the error slot, runs of any length *)

InitDoc == InitBoundary(Unbounded)

NextDoc == DocOps(MainSess, ResArgs)

SpecDoc == InitDoc /\ [][NextDoc]_vars

-----------------------------------------------------------------------------
(* SpecCursor: parameter cursors over a parsed document, runs of any       *)
(* length.  It starts where a successful wit_parse of any interface has    *)
(* returned.                                                               *)

InitCursor ==
    /\ catch_panics \in BOOLEAN
    /\ crashed = FALSE
    /\ \E fns \in Interfaces : wit = WIT(fns)
    /\ iters = [h \in IterIds |-> NoIter]
    /\ sessErr = [s \in Sessions |-> None]
    /\ out = <<"wit", WITPTR>>
    /\ last = [op |-> "wit_parse", s |-> 1, args |-> <<"ok", RES>>, ret |-> "true",
               err |-> None]
    /\ calls = [h \in IterIds |-> 0]
    /\ budget = Unbounded
    /\ held = None
    /\ InitConcIdle

NextCursor == ParamCursorOps({1}, {RES}, IterIds)

SpecCursor == InitCursor /\ [][NextCursor]_vars

-----------------------------------------------------------------------------
(* SpecWalk: the three cursor kinds over a parsed document, runs of any    *)
(* length: one parameter cursor and, nested below its items or below a     *)
(* function result, one field or case cursor.                              *)

\* The address of the parameter cursor, and that of the nested cursor
ParamIters == {1}
NestedIters == {MaxIters}

NextWalk ==
    \/ ParamCursorOps({1}, {RES}, ParamIters)
    \/ FieldCursorOps({1}, {RES}, NestedIters)
    \/ CaseCursorOps({1}, {RES}, NestedIters)
    \/ \E td \in TdArgs : wit_variant_tag_get(1, td, RES)

SpecWalk == InitCursor /\ [][NextWalk]_vars

-----------------------------------------------------------------------------
(* SpecType: the accessors of the type descriptors of a parsed document,   *)
(* reached through one parameter cursor or a function result               *)

NextType ==
    \/ ParamCursorOps({1}, {RES}, ParamIters)
    \/ TypeOps({1}, {RES})

SpecType == InitCursor /\ [][NextType]_vars

-----------------------------------------------------------------------------
(* SpecAll: every boundary operation on a parsed document short of its     *)
(* disposal, runs of any length, over one session and a non-null output:   *)
(* the lookups, one parameter cursor, one nested field or case cursor, the *)
(* type descriptor and the signature operations.                           *)

\* The document operations that leave the document alive
LookupOps(S, R) ==
    \E s \in S, res \in R :
        \/ wit_error_clear(s)
        \/ \E func \in FuncArgs : wit_func_name_get(s, func, res)
        \/ \E w \in WitArgs : wit_func_count_get(s, w, res)
        \/ \E w \in WitArgs, index \in IndexArgs : wit_func_get_by_index(s, w, index, res)
        \/ \E w \in WitArgs, fname \in NameArgs : wit_func_get_by_name(s, w, fname, res)

NextAll ==
    \/ LookupOps({1}, {RES})
    \/ ParamCursorOps({1}, {RES}, ParamIters)
    \/ FieldCursorOps({1}, {RES}, NestedIters)
    \/ CaseCursorOps({1}, {RES}, NestedIters)
    \/ TypeOps({1}, {RES})
    \/ SigOps({1}, {RES})

\* It starts where wit_parse has returned the document of MaxFuncs functions
\* that declares the function without parameters first and then functions
\* of three parameters (a handle, a nested list, an expected).
InitAll ==
    /\ InitCursor
    /\ Len(wit.functions) = MaxFuncs
    /\ \A i \in 1 .. MaxFuncs :
          Len(wit.functions[i].params) = IF i = 1 THEN 0 ELSE 3

SpecAll == InitAll /\ [][NextAll]_vars

-----------------------------------------------------------------------------
(* SpecSess: two sessions over one document, their calls interleaved in    *)
(* any order: the lookups, a parameter cursor and the signature            *)
(* operations, failing, succeeding and panicking, and wit_error_clear.     *)

NextSess ==
    \/ LookupOps(Sessions, {RES})
    \/ ParamCursorOps(Sessions, {RES}, ParamIters)
    \/ SigOps(Sessions, {RES})

SpecSess == InitAll /\ [][NextSess]_vars

-----------------------------------------------------------------------------
(* SpecPair: two cursors of any kinds alive at once over one document,     *)
(* runs of any length: two walks of one function, a parameter cursor and a *)
(* cursor nested below its item, two cursors over one function result.     *)

NextPair ==
    \/ ParamCursorOps({1}, {RES}, IterIds)
    \/ FieldCursorOps({1}, {RES}, IterIds)
    \/ CaseCursorOps({1}, {RES}, IterIds)

SpecPair == InitAll /\ [][NextPair]_vars

-----------------------------------------------------------------------------
(* SpecOwn: the caller keeps a type descriptor handle it got from a        *)
(* parameter cursor (the item, or a subtype box below it) and uses it      *)
(* later.  wit_typedef_iter_next assigns iter.item: the assignment drops   *)
(* the WITTypeDef the slot held, with its name and its subty boxes, and    *)
(* builds the next one in the same slot.                                   *)

\* The handle td as the caller keeps it: with the count of assignments to
\* the item slot at the time (which item it is) and the name it then had
Held(td) == [td |-> td, gen |-> calls[td[2]], name |-> td_deref(td).name]

\* The WITTypeDef the kept handle was handed out for still exists
HeldAlive ==
    /\ iters[held[1].td[2]] # NoIter
    /\ calls[held[1].td[2]] = held[1].gen

\* The caller keeps the handle an operation has just written to its output
keep_handle ==
    /\ ~crashed
    /\ out[1] = "td"
    /\ out[2][1] = "iter"
    /\ held' = Some(Held(out[2]))
    /\ UNCHANGED <<catch_panics, crashed, wit, iters, sessErr, out, last, calls, budget,
                   concvars>>

\* The caller forgets the handle it kept
drop_handle ==
    /\ held # None
    /\ held' = None
    /\ UNCHANGED <<catch_panics, crashed, wit, iters, sessErr, out, last, calls, budget,
                   concvars>>

\* A read through a pointer into freed memory: the process dies, or the call
\* returns whatever the memory holds now
UseAfterFree(op, s, args) ==
    /\ CanCall
    /\ \E c \in BOOLEAN :
          /\ crashed' = c
          /\ out' = IF c THEN Unwritten ELSE <<"garbage">>
          /\ last' = [op |-> op, s |-> s, args |-> args,
                      ret |-> IF c THEN "none" ELSE "true", err |-> None]
    /\ Spend
    /\ UNCHANGED <<catch_panics, wit, iters, sessErr, calls, held, concvars>>

\* wit_typedef_name_get on the kept handle.  Once the slot has been
\* reassigned, the handle of the item itself reads the item that is in the
\* slot now, if there is one; the handle of a subtype box, and the handle of
\* the item of an exhausted cursor, read freed memory.
wit_typedef_name_get_held(s, res) ==
    /\ held # None
    /\ iters[held[1].td[2]] # NoIter
    /\ IF HeldAlive \/ (held[1].td[3] = <<>> /\ iters[held[1].td[2]].item # None)
       THEN wit_typedef_name_get(s, held[1].td, res)
       ELSE /\ UseAfterFree("wit_typedef_name_get", s, <<held[1].td, res>>)
            /\ UNCHANGED <<wit, iters, calls, sessErr>>

\* The caller forgets the handles into a cursor before it disposes of it.
NextOwn ==
    \/ \E func \in FuncArgs, h \in FreeIters(ParamIters) :
          wit_func_param_walk(1, func, RES, h)
    \/ \E iter \in IterArgs("typedef") : wit_typedef_iter_next(1, iter)
    \/ \E iter \in IterArgs("typedef") : wit_typedef_iter_at(1, iter, RES)
    \/ \E td \in TdArgs : wit_array_elem_typedef_get(1, td, RES)
    \/ \E td \in TdArgs : wit_expected_ok_typedef_get(1, td, RES)
    \/ keep_handle
    \/ drop_handle
    \/ wit_typedef_name_get_held(1, RES)
    \/ \E iter \in IterArgs("typedef") :
          /\ IF held = None \/ iter = NULL THEN TRUE ELSE held[1].td[2] # iter
          /\ wit_typedef_iter_delete(1, iter)

SpecOwn == InitCursor /\ [][NextOwn]_vars

-----------------------------------------------------------------------------
(* Threads reading one document.  Rc::clone and Rc::drop are a plain load  *)
(* of the strong count followed by a plain store of the count plus or      *)
(* minus one (Cell<usize>, not an atomic), so each is two steps here and   *)
(* the steps of the threads interleave freely.                             *)

RECURSIVE td_rc(_)
\* The Rc fields of an Option<WITTypeDef> and of the boxes below it, in
\* field order (the order of their clones at construction and of their
\* drops): iface, align, subty1, subty2
td_rc(td_opt) ==
    IF td_opt = None THEN <<>>
    ELSE <<"iface", "align">> \o td_rc(td_opt[1].subty1) \o td_rc(td_opt[1].subty2)

\* The Rc fields of a WITTypeDefIter in field order: iface, align, item
iter_rc(it) == <<"iface", "align">> \o td_rc(it.item)

Clones(rcs) == [i \in 1 .. Len(rcs) |-> <<rcs[i], 1>>]
Drops(rcs) == [i \in 1 .. Len(rcs) |-> <<rcs[i], 0 - 1>>]

RECURSIVE func_rcs(_)
\* The number of clones of each Rc the WITFunction entries of names hold:
\* one in the descriptor, one in every WITTypeDef of its res
func_rcs(names) ==
    IF names = {} THEN 0
    ELSE LET n == CHOOSE x \in names : TRUE IN
         1 + Len(td_rc(Some(wit.funcs[n].res))) \div 2 + func_rcs(names \ {n})

RECURSIVE thread_rcs(_)
\* The number of clones of each Rc the iterators of the idle threads ts hold
thread_rcs(ts) ==
    IF ts = {} THEN 0
    ELSE LET t == CHOOSE x \in ts : TRUE IN
         (IF tpc[t].iter = NoIter THEN 0 ELSE Len(iter_rc(tpc[t].iter)) \div 2)
         + thread_rcs(ts \ {t})

\* The owners of each Rc: the WIT, its function descriptors, the iterators
Holders == 1 + func_rcs(DOMAIN wit.funcs) + thread_rcs(Threads)

Idle(it) == [op |-> "idle", todo |-> <<>>, loaded |-> FALSE, iter |-> it, after |-> it]
Freed == \E rc \in RcNames : strong[rc] = 0

\* A thread enters an operation: todo lists the count accesses it will make
t_begin(t, op, todo, after) ==
    /\ CanCall
    /\ ~Freed
    /\ tpc[t].op = "idle"
    /\ tpc' = [tpc EXCEPT ![t] = [op |-> op, todo |-> todo, loaded |-> FALSE,
                                  iter |-> tpc[t].iter, after |-> after]]
    /\ Spend
    /\ UNCHANGED <<catch_panics, crashed, wit, iters, sessErr, out, last, calls,
                   held, strong, treg>>

\* wit_func_param_walk: the clones of the first item, then of the iterator
t_func_param_walk(t, func) ==
    LET it == new_iter("typedef", wit.functions[wit.funcs[func].index + 1].params) IN
    /\ tpc[t].iter = NoIter
    /\ t_begin(t, "wit_func_param_walk",
               Clones(td_rc(it.item)) \o Clones(<<"iface", "align">>), it)

\* wit_typedef_iter_next: the clones of the new item, then the drop of the
\* item the assignment replaces
t_typedef_iter_next(t) ==
    /\ tpc[t].iter # NoIter
    /\ tpc[t].iter.item # None
    /\ t_begin(t, "wit_typedef_iter_next",
               Clones(td_rc(advance(tpc[t].iter).item)) \o Drops(td_rc(tpc[t].iter.item)),
               advance(tpc[t].iter))

\* wit_typedef_iter_delete: the drop of the Box
t_typedef_iter_delete(t) ==
    /\ tpc[t].iter # NoIter
    /\ t_begin(t, "wit_typedef_iter_delete", Drops(iter_rc(tpc[t].iter)), NoIter)

\* strong(): the read of the count
rc_load(t) ==
    /\ ~Freed
    /\ tpc[t].todo # <<>>
    /\ ~tpc[t].loaded
    /\ treg' = [treg EXCEPT ![t] = strong[tpc[t].todo[1][1]]]
    /\ tpc' = [tpc EXCEPT ![t].loaded = TRUE]
    /\ UNCHANGED <<seqvars, strong>>

\* strong_ref().set(strong + 1) or set(strong - 1): the write of the count
rc_store(t) ==
    /\ ~Freed
    /\ tpc[t].todo # <<>>
    /\ tpc[t].loaded
    /\ strong' = [strong EXCEPT ![tpc[t].todo[1][1]] = treg[t] + tpc[t].todo[1][2]]
    /\ tpc' = [tpc EXCEPT ![t].loaded = FALSE, ![t].todo = Tail(@)]
    /\ UNCHANGED <<seqvars, treg>>

\* The operation returns to its caller
t_return(t) ==
    /\ tpc[t].op # "idle"
    /\ tpc[t].todo = <<>>
    /\ tpc' = [tpc EXCEPT ![t] = Idle(tpc[t].after)]
    /\ UNCHANGED <<seqvars, strong, treg>>

InitConc ==
    /\ catch_panics = FALSE
    /\ crashed = FALSE
    /\ \E fns \in Interfaces : Len(fns) > 0 /\ wit = WIT(fns)
    /\ iters = [h \in IterIds |-> NoIter]
    /\ sessErr = [s \in Sessions |-> None]
    /\ out = <<"wit", WITPTR>>
    /\ last = [op |-> "wit_parse", s |-> 1, args |-> <<"ok", RES>>, ret |-> "true",
               err |-> None]
    /\ calls = [h \in IterIds |-> 0]
    /\ budget = MaxCalls
    /\ held = None
    /\ tpc = [t \in Threads |-> Idle(NoIter)]
    /\ treg = [t \in Threads |-> 0]
    /\ strong = [rc \in RcNames |-> 1 + func_rcs(DOMAIN wit.funcs)]

NextConc ==
    \E t \in Threads :
        \/ \E func \in DOMAIN wit.funcs : t_func_param_walk(t, func)
        \/ t_typedef_iter_next(t)
        \/ t_typedef_iter_delete(t)
        \/ rc_load(t)
        \/ rc_store(t)
        \/ t_return(t)

SpecConc == InitConc /\ [][NextConc]_vars

-----------------------------------------------------------------------------
(* The claims *)

\* The operations that go through ffi_return are the fallible ones; the rest
\* return nothing or a plain bool.
PlainOps ==
    {"wit_session_new", "wit_delete", "wit_error_clear",
     "wit_typedef_iter_off", "wit_typedef_iter_delete",
     "wit_field_iter_off", "wit_field_iter_delete",
     "wit_case_iter_off", "wit_case_iter_delete"}
Failed == last.op \notin PlainOps /\ last.ret = "false"
Succeeded == last.op \notin PlainOps /\ last.ret = "true"

\* C1: a cursor made by wit_func_param_walk over a function with K
\* parameters admits exactly K successful wit_typedef_iter_next calls:
\* wit_typedef_iter_off is false until the K-th has succeeded and true from
\* then on, and the next call after the K-th returns false with the
\* out-of-bounds error on the session.
C1_CursorExhaustion ==
    /\ \A h \in IterIds :
          iters[h].kind = "typedef" =>
             LET K == Len(iters[h].seq) IN
             /\ \E i \in 1 .. Len(wit.functions) : iters[h].seq = wit.functions[i].params
             /\ calls[h] <= K
             /\ wit_typedef_iter_off(h) <=> calls[h] = K
             /\ calls[h] < K => _wit_typedef_iter_next(h).kind = "Ok"
             /\ calls[h] = K => _wit_typedef_iter_next(h) = Err(OutOfBounds)
    /\ (last.op = "wit_typedef_iter_next" /\ last.args[1] # NULL /\ last.ret = "false")
          => /\ calls[last.args[1]] = Len(iters[last.args[1]].seq)
             /\ wit_error_get(last.s) = Some(OutOfBounds)

\* C1's case: a cursor over three parameters after three successful next
\* calls and a fourth, refused one
C1_Witness ==
    \E h \in IterIds :
        /\ iters[h].kind = "typedef"
        /\ Len(iters[h].seq) = 3
        /\ calls[h] = 3
        /\ last.op = "wit_typedef_iter_next" /\ last.args = <<h>> /\ last.ret = "false"
        /\ wit_error_get(last.s) = Some(OutOfBounds)

\* C8: for a parsed document with N functions, wit_func_count_get returns N,
\* and for every i in [0, N) wit_func_get_by_index(i) succeeds with a
\* descriptor whose name, looked up through wit_func_get_by_name, gives a
\* descriptor of the same name.
C8_RoundTrip ==
    /\ wit.live =>
          LET N == Len(wit.functions) IN
          /\ _wit_func_count_get(WITPTR, RES) = Ok(<<"usize", N>>)
          /\ \A i \in 0 .. N - 1 :
                LET r == _wit_func_get_by_index(WITPTR, i, RES) IN
                /\ r.kind = "Ok"
                /\ LET name == _wit_func_name_get(r.val[2], RES).val[2]
                       r2 == _wit_func_get_by_name(WITPTR, name, RES) IN
                   /\ name = wit.functions[i + 1].name
                   /\ r2.kind = "Ok"
                   /\ _wit_func_name_get(r2.val[2], RES).val[2] = name
    /\ (last.op = "wit_func_count_get" /\ last.ret = "true")
          => out = <<"usize", Len(wit.functions)>>
    /\ (last.op = "wit_func_get_by_index" /\ last.ret = "true")
          => /\ last.args[2] < Len(wit.functions)
             /\ out = <<"func", wit.functions[last.args[2] + 1].name>>
    /\ (last.op = "wit_func_get_by_name" /\ last.ret = "true")
          => out = <<"func", last.args[2]>> /\ wit.funcs[last.args[2]].name = last.args[2]

\* C8's case: a document of two functions whose second was fetched by index
C8_Witness ==
    /\ wit.live
    /\ Len(wit.functions) = 2
    /\ last.op = "wit_func_get_by_index" /\ last.args[2] = 1 /\ last.ret = "true"
    /\ out = <<"func", wit.functions[2].name>>

\* C2: the error slot of a session is empty after every fallible operation on
\* it that returned true, and after wit_error_clear on it.
C2_ClearedBySuccess ==
    /\ (Succeeded /\ last.s # NULL) => wit_error_get(last.s) = None
    /\ (last.op = "wit_error_clear" /\ last.s # NULL) => wit_error_get(last.s) = None

\* C3: after a fallible operation returned false on a non-null session,
\* wit_error_get on that session gives the message of that failure.
C3_FailureSetsMessage ==
    (Failed /\ last.s # NULL) =>
        /\ wit_error_get(last.s) # None
        /\ wit_error_get(last.s) = last.err

\* C4: threads that read one document race on nothing: no two of them are
\* ever about to access the same reference count with one of the accesses a
\* write, and whenever all of them are between operations each count equals
\* the number of its owners.
C4_ConcurrentReadsRaceFree ==
    /\ \A t1, t2 \in Threads :
          (/\ t1 # t2
           /\ tpc[t1].todo # <<>> /\ tpc[t2].todo # <<>>
           /\ tpc[t1].todo[1][1] = tpc[t2].todo[1][1])
             => ~(tpc[t1].loaded \/ tpc[t2].loaded)
    /\ (\A t \in Threads : tpc[t].op = "idle")
          => \A rc \in RcNames : strong[rc] = Holders

\* C5: wit_func_get_by_index with an index >= the function count returns
\* false, sets a not-found error on the session and leaves the output
\* unwritten, rather than faulting.
C5_IndexOutOfRange ==
    (/\ last.op = "wit_func_get_by_index"
     /\ last.s # NULL /\ last.args[1] # NULL /\ last.args[3] # NULL
     /\ last.args[2] >= Len(wit.functions))
        => /\ ~crashed
           /\ last.ret = "false"
           /\ wit_error_get(last.s) # None
           /\ wit_error_get(last.s)[1].text = NotFound("").text
           /\ out = Unwritten

\* C6: wit_sig_type_get_by_index with idx >= the length of the selected part
\* returns false with an out-of-range error on the session and leaves the
\* output unwritten; with idx < length it returns the word kind at idx.
C6_SigIndexOutOfRange ==
    (/\ last.op = "wit_sig_type_get_by_index"
     /\ last.s # NULL /\ last.args[1] # NULLF /\ last.args[4] # NULL)
        => LET v == sig_part(last.args[1], last.args[2])
               idx == last.args[3] IN
           IF idx >= Len(v)
           THEN /\ ~crashed
                /\ last.ret = "false"
                /\ wit_error_get(last.s) \notin {None, Some(CaughtPanic)}
                /\ out = Unwritten
           ELSE /\ last.ret = "true"
                /\ out = <<"WASMType", WASMType_from(v[idx + 1])>>

\* C7: wit_parse never succeeds on an interface that holds two functions of
\* one name: a document has one name-map entry per function.
C7_DuplicateNamesRejected ==
    /\ (last.op = "wit_parse" /\ last.ret = "true") => UniqueNames(wit.functions)
    /\ wit.live => Cardinality(DOMAIN wit.funcs) = Len(wit.functions)

\* C9: when a fallible operation returns false, the location behind its
\* output parameter holds what it held before the call.
C9_OutputUnwrittenOnFailure ==
    Failed => out = Unwritten

\* C9's case: wit_typedef_type_get refusing, with valid pointers, a type it
\* has no tag for
C9_Witness ==
    /\ Failed
    /\ last.op = "wit_typedef_type_get"
    /\ last.args[1] # NULLTD /\ last.args[2] # NULL
    /\ last.s # NULL /\ wit_error_get(last.s) = Some(Unsupported)
    /\ out = Unwritten

\* C10: no panic of an operation reaches the foreign caller: the call
\* returns false with the internal error on the session, whether or not the
\* session handle is null.
C10_NoPanicEscapes ==
    /\ ~crashed
    /\ last.err = Some(CaughtPanic) =>
          /\ last.ret = "false"
          /\ last.s # NULL => wit_error_get(last.s) = Some(CaughtPanic)

\* The TypeDefKind name of the type of a descriptor, "Handle", or the name
\* of its primitive type
KindName(td) ==
    IF td.ty.tag = "Id" THEN kind_of(td).kind ELSE td.ty.tag

\* C12: wit_record_field_walk on a type descriptor of kind list returns
\* false, creates no iterator, and leaves the type-mismatch error on the
\* session for wit_error_get.
C12_FieldWalkOnList ==
    [][ (/\ last'.op = "wit_record_field_walk"
         /\ last'.args[1] # NULLTD /\ last'.args[2] # NULL
         /\ KindName(td_deref(last'.args[1])) = "List")
            => /\ last'.ret = "false"
               /\ iters' = iters
               /\ out' = Unwritten
               /\ sessErr'[last'.s] = Some(MustBeRecord) ]_vars

\* C12's case: a refused wit_record_field_walk on the list-typed parameter
\* under the parameter cursor
C12_Witness ==
    /\ last.op = "wit_record_field_walk" /\ last.ret = "false"
    /\ last.args[1] # NULLTD /\ last.args[2] # NULL
    /\ last.args[1][1] = "iter"
    /\ KindName(td_deref(last.args[1])) = "List"
    /\ wit_error_get(last.s) = Some(MustBeRecord)
    /\ \A h \in NestedIters : iters[h] = NoIter

\* The operations by the kind of their first handle
DocHandleOps == {"wit_delete", "wit_func_count_get", "wit_func_get_by_index",
                 "wit_func_get_by_name"}
FuncHandleOps == {"wit_func_name_get", "wit_func_param_walk", "wit_func_result_get",
                  "wit_func_sig_get", "wit_sig_is_indirect", "wit_sig_length_get",
                  "wit_sig_type_get_by_index"}
IterHandleOps == {"wit_typedef_iter_off", "wit_typedef_iter_next", "wit_typedef_iter_at",
                  "wit_typedef_iter_delete",
                  "wit_field_iter_off", "wit_field_iter_next", "wit_field_iter_at",
                  "wit_field_iter_delete",
                  "wit_case_iter_off", "wit_case_iter_next", "wit_case_iter_at",
                  "wit_case_iter_delete"}
OffOps == {"wit_typedef_iter_off", "wit_field_iter_off", "wit_case_iter_off"}
NoOutOps == PlainOps \cup {"wit_typedef_iter_next", "wit_field_iter_next",
                           "wit_case_iter_next"}

\* The call l was made with a null handle: its document, function, type
\* descriptor, iterator, signature, name or content pointer, or its output
\* pointer (for wit_error_clear, which has no other handle, its session)
NullCall(l) ==
    \/ l.op = "wit_error_clear" /\ l.s = NULL
    \/ l.op = "wit_parse" /\ l.args[1] = "null"
    \/ l.op \in DocHandleOps /\ l.args[1] = NULL
    \/ l.op = "wit_func_get_by_name" /\ l.args[2] = NULLF
    \/ l.op \in FuncHandleOps /\ l.args[1] = NULLF
    \/ l.op \in IterHandleOps /\ l.args[1] = NULL
    \/ l.op \notin DocHandleOps \cup FuncHandleOps \cup IterHandleOps
                   \cup {"wit_parse", "wit_error_clear", "wit_session_new"}
       /\ l.args[1] = NULLTD
    \/ l.op \notin NoOutOps /\ l.args[Len(l.args)] = NULL

\* C11: a call with a null handle never crashes: a fallible operation
\* returns false, the three *_iter_off predicates return true, the delete
\* and clear operations change nothing; also with a null session.
C11_NullHandlesSafe ==
    [][ NullCall(last') =>
          /\ ~crashed'
          /\ wit' = wit /\ iters' = iters
          /\ out' = Unwritten
          /\ last'.op \notin PlainOps => last'.ret = "false"
          /\ last'.op \in OffOps => last'.ret = "true"
          /\ last'.op \in PlainOps => sessErr' = sessErr
          /\ last'.s = NULL => sessErr' = sessErr ]_vars

\* C11's case: on a parsed document, a null session and a null iterator
\* given to wit_typedef_iter_off
C11_Witness ==
    /\ wit.live /\ ~crashed
    /\ last.op = "wit_typedef_iter_off" /\ last.s = NULL /\ last.args = <<NULL>>
    /\ last.ret = "true"

\* C13: wit_parse on invalid input (text the parser rejects, bytes that are
\* not UTF-8, a null content or output pointer) returns false, leaves the
\* document output unwritten and sets a non-empty message of that failure
\* on the session.
C13_InvalidParseReported ==
    (/\ last.op = "wit_parse" /\ last.s # NULL
     /\ (last.args[1] \in {"null", "badutf8", "reject"} \/ last.args[2] = NULL))
        => /\ last.ret = "false"
           /\ out = Unwritten
           /\ wit_error_get(last.s) # None
           /\ wit_error_get(last.s) = last.err

\* C14: a type descriptor a cursor has handed out, and every subtype
\* descriptor below it, exists until the cursor is disposed of: while the
\* cursor lives, later next calls on it leave the kept handle pointing at
\* the descriptor it was handed out for, and using it is safe.
C14_ItemOwnedUntilDelete ==
    /\ (held # None /\ iters[held[1].td[2]] # NoIter) => HeldAlive
    /\ ~crashed
    /\ (last.op = "wit_typedef_name_get" /\ last.ret = "true" /\ held # None
        /\ last.args[1] = held[1].td)
          => out = <<"cstr", held[1].name>>

WalkOps == {"wit_func_param_walk", "wit_record_field_walk", "wit_variant_case_walk"}

\* C15: for each of the three cursor kinds, the item of a cursor is None
\* if and only if every element of its source sequence has been consumed
\* and passed; otherwise the item is the element after the ones passed.  A
\* new cursor is on the first element of a non-empty sequence and is
\* exhausted on an empty one.
C15_ItemNoneIffPastEnd ==
    /\ \A h \in IterIds :
          iters[h] # NoIter =>
             LET it == iters[h] IN
             /\ it.kind \in {"typedef", "field", "case"}
             /\ calls[h] <= Len(it.seq)
             /\ it.item = None <=> calls[h] = Len(it.seq)
             /\ it.item # None =>
                   /\ it.item[1].name = it.seq[calls[h] + 1].name
                   /\ it.item[1].ty = it.seq[calls[h] + 1].ty
    /\ (last.op \in WalkOps /\ last.ret = "true") =>
          LET it == iters[out[2]] IN
          /\ calls[out[2]] = 0
          /\ IF it.seq = <<>> THEN it.item = None
             ELSE it.item # None /\ it.item[1].name = it.seq[1].name

\* C15's case: a field cursor over the two fields of a record, exhausted
\* after two next calls, under a parameter cursor that is on its item
C15_Witness ==
    \E h \in IterIds, p \in IterIds :
        /\ iters[h].kind = "field" /\ Len(iters[h].seq) = 2
        /\ calls[h] = 2 /\ iters[h].item = None
        /\ iters[p].kind = "typedef" /\ iters[p].item # None

NextOps == {"wit_typedef_iter_next", "wit_field_iter_next", "wit_case_iter_next"}
AtOps == {"wit_typedef_iter_at", "wit_field_iter_at", "wit_case_iter_at"}

\* C16: exhaustion is absorbing for the three cursor kinds: on an exhausted
\* cursor the next operation and the current-item operation return false
\* with an out-of-bounds error and leave the cursor as it is, and no step
\* takes an exhausted cursor to anything but itself or its disposal.
C16_ExhaustionAbsorbing ==
    [][ /\ \A h \in IterIds :
              (iters[h] # NoIter /\ iters[h].item = None)
                 => iters'[h] \in {iters[h], NoIter}
        /\ (/\ last'.op \in NextOps \cup AtOps
            /\ last'.args[1] # NULL
            /\ last'.op \in AtOps => last'.args[2] # NULL
            /\ iters[last'.args[1]].item = None)
              => /\ last'.ret = "false"
                 /\ sessErr'[last'.s] \in {Some(OutOfBounds), Some(OutOfBoundsNext)}
                 /\ out' = Unwritten
                 /\ iters' = iters /\ calls' = calls ]_vars

\* C16's case: the current-item operation refused on a case cursor that has
\* passed both cases of a variant
C16_Witness ==
    \E h \in IterIds :
        /\ iters[h].kind = "case" /\ Len(iters[h].seq) = 2 /\ iters[h].item = None
        /\ calls[h] = 2
        /\ last.op = "wit_case_iter_at" /\ last.args[1] = h /\ last.ret = "false"
        /\ wit_error_get(last.s) = Some(OutOfBounds)

\* C17: after wit_parse has returned, no boundary operation short of
\* wit_delete changes the document, its function descriptors, their result
\* type descriptors or their signatures: the document stays what its
\* construction made of its functions, and a result type descriptor read at
\* any time is the one the construction built.
C17_DocumentImmutable ==
    [][ /\ wit' = wit
        /\ wit.live /\ wit = WIT(wit.functions)
        /\ (last'.op = "wit_func_result_get" /\ last'.ret = "true")
              => /\ out'[1] = "td"
                 /\ td_deref(out'[2])
                      = WITTypeDef("", wit.functions[wit.funcs[last'.args[1]].index + 1].result)
        /\ (last'.op = "wit_sig_length_get" /\ last'.ret = "true")
              => LET f == wit.functions[wit.funcs[last'.args[1]].index + 1] IN
                 out' = <<"usize", Len(IF last'.args[2] = "Params"
                                       THEN f.sig.params ELSE f.sig.results)>> ]_vars

\* C17's case: the result type descriptor read after the parameter cursor
\* has been walked to its end and a case cursor has been opened
C17_Witness ==
    /\ wit.live /\ wit = WIT(wit.functions)
    /\ last.op = "wit_func_result_get" /\ last.ret = "true"
    /\ iters[1].kind = "typedef" /\ calls[1] = 3 /\ iters[1].item = None
    /\ iters[MaxIters].kind = "case"

DeleteOps == {"wit_typedef_iter_delete", "wit_field_iter_delete", "wit_case_iter_delete"}

\* The sequence a walk operation called with the arguments args iterates
WalkSource(op, args) ==
    IF op = "wit_func_param_walk"
    THEN wit.functions[wit.funcs[args[1]].index + 1].params
    ELSE kind_of(td_deref(args[1])).elems

\* C18: disposing a cursor leaves the document, its function descriptors,
\* the other cursors and every type descriptor that is still valid as they
\* were, and a walk started at any time, after a disposal too, is positioned
\* on the first element of the whole sequence of its function, record or
\* variant.
C18_DeleteLeavesSource ==
    [][ /\ (last'.op \in DeleteOps /\ last'.args[1] # NULL)
              => /\ wit' = wit
                 /\ iters'[last'.args[1]] = NoIter
                 /\ \A g \in IterIds \ {last'.args[1]} : iters'[g] = iters[g]
                 /\ \A td \in TdArgs' \ {NULLTD} :
                       td \in TdArgs /\ td_deref(td)' = td_deref(td)
        /\ (last'.op \in WalkOps /\ last'.ret = "true")
              => /\ out'[1] = "iter"
                 /\ iters'[out'[2]].seq = WalkSource(last'.op, last'.args)
                 /\ iters'[out'[2]].idx = IF iters'[out'[2]].seq = <<>> THEN 0 ELSE 1
                 /\ calls'[out'[2]] = 0 ]_vars

\* C18's case: a field cursor has been disposed of while
\* the parameter cursor it was opened under stays on its item
C18_Witness ==
    /\ last.op = "wit_field_iter_delete" /\ last.args[1] = MaxIters
    /\ iters[MaxIters] = NoIter
    /\ iters[1].kind = "typedef" /\ iters[1].item # None
    /\ wit.live /\ wit = WIT(wit.functions)

\* The kind each kind-restricted operation accepts
RequiredKind ==
    [wit_record_field_walk |-> "Record", wit_variant_case_walk |-> "Variant",
     wit_variant_tag_get |-> "Variant"]

\* C19: wit_record_field_walk succeeds only on a record, wit_variant_case_walk
\* and wit_variant_tag_get only on a variant (the tag width being 1, 2, 4 or
\* 8); on a descriptor of any other kind, primitive types included, each
\* returns false with a type-mismatch error, never an out-of-bounds error,
\* and creates no iterator.
C19_KindMismatchReported ==
    [][ (/\ last'.op \in DOMAIN RequiredKind
         /\ last'.args[1] # NULLTD /\ last'.args[2] # NULL /\ last'.s # NULL)
           => IF KindName(td_deref(last'.args[1])) = RequiredKind[last'.op]
              THEN /\ last'.ret = "true"
                   /\ last'.op = "wit_variant_tag_get"
                         => out'[1] = "u8" /\ out'[2] \in {1, 2, 4, 8}
              ELSE /\ last'.ret = "false"
                   /\ sessErr'[last'.s] \in
                         {Some(MustBeRecord), Some(MustBeVariant), Some(MustBeVariantTag)}
                   /\ iters' = iters
                   /\ out' = Unwritten ]_vars

\* C20: wit_typedef_type_get returns false with the Unsupported error and
\* writes no tag exactly when the type of the descriptor is a resource handle
\* or a type definition of a kind other than flags, expected, option, union,
\* enum, tuple, record, list and variant; for every other type it returns
\* true with the tag of the type, and the Unknown tag is never written.
C20_UnsupportedExactly ==
    /\ out[1] = "WITType" => out[2] # "Unknown"
    /\ (/\ last.op = "wit_typedef_type_get"
        /\ last.args[1] # NULLTD /\ last.args[2] # NULL /\ last.s # NULL)
          => LET ty == td_deref(last.args[1]).ty IN
             IF \/ ty.tag = "Handle"
                \/ /\ ty.tag = "Id"
                   /\ iface_types[ty.id].kind \notin
                         {"Flags", "Expected", "Option", "Union", "Enum", "Tuple",
                          "Record", "List", "Variant"}
             THEN /\ last.ret = "false"
                  /\ sessErr[last.s] = Some(Unsupported)
                  /\ out = Unwritten
             ELSE /\ last.ret = "true"
                  /\ out = <<"WITType", KindName(td_deref(last.args[1]))>>

\* C20's case: the type of a parameter that is a resource handle has been
\* asked for and refused
C20_Witness ==
    /\ last.op = "wit_typedef_type_get" /\ last.args[1] # NULLTD
    /\ td_deref(last.args[1]).ty.tag = "Handle"
    /\ last.ret = "false"
    /\ wit_error_get(last.s) = Some(Unsupported)
    /\ out = Unwritten

\* C21: every type descriptor there is (the result of a function, the item
\* of a cursor, and every subtype below them) has its subtype slots set by
\* its kind: a list has subty1 (its element type) and no subty2, an expected
\* has both, named ok and err, and every other kind, primitive types and
\* handles included, has neither.
C21_SlotsByKind ==
    \A h \in TdArgs \ {NULLTD} :
        LET td == td_deref(h) IN
        CASE KindName(td) = "List" ->
                /\ td.subty1 # None /\ td.subty2 = None
                /\ td.subty1[1].name = "" /\ td.subty1[1].ty = kind_of(td).ty1
          [] KindName(td) = "Expected" ->
                /\ td.subty1 # None /\ td.subty2 # None
                /\ td.subty1[1].name = "ok" /\ td.subty1[1].ty = kind_of(td).ty1
                /\ td.subty2[1].name = "err" /\ td.subty2[1].ty = kind_of(td).ty2
          [] OTHER -> td.subty1 = None /\ td.subty2 = None

\* C21's case: after a next call the parameter cursor holds an expected, the
\* field cursor opened below a list holds a primitive field, and the
\* document holds a function result
C21_Witness ==
    /\ last.op = "wit_field_iter_next" /\ last.ret = "true"
    /\ iters[1].item # None /\ KindName(iters[1].item[1]) = "Expected" /\ calls[1] > 0
    /\ iters[MaxIters].kind = "field" /\ iters[MaxIters].item # None
    /\ KindName(iters[MaxIters].item[1]) = "S32"
    /\ \E n \in DOMAIN wit.funcs : KindName(wit.funcs[n].res) = "Variant"

\* The kind each subtype getter accepts and the slot it reads
SubtypeGetters ==
    [wit_array_elem_typedef_get |-> [kind |-> "List", slot |-> 1],
     wit_expected_ok_typedef_get |-> [kind |-> "Expected", slot |-> 1],
     wit_expected_err_typedef_get |-> [kind |-> "Expected", slot |-> 2]]

\* C22: wit_array_elem_typedef_get succeeds exactly on a list, and
\* wit_expected_ok_typedef_get and wit_expected_err_typedef_get exactly on
\* an expected; a success returns the handle of the subtype box the
\* descriptor was built with (a function of the descriptor alone, so the same
\* at every call), and no call builds or changes a descriptor or a cursor.
C22_SubtypeGetters ==
    [][ (/\ last'.op \in DOMAIN SubtypeGetters
         /\ last'.args[1] # NULLTD /\ last'.args[2] # NULL /\ last'.s # NULL)
           => LET td == last'.args[1]
                  g == SubtypeGetters[last'.op]
                  box == IF g.slot = 1 THEN td_deref(td).subty1 ELSE td_deref(td).subty2
              IN
              /\ iters' = iters /\ wit' = wit
              /\ IF KindName(td_deref(td)) = g.kind
                 THEN /\ last'.ret = "true"
                      /\ box # None
                      /\ out' = <<"td", <<td[1], td[2], Append(td[3], g.slot)>>>>
                      /\ td_deref(out'[2]) = box[1]
                 ELSE /\ last'.ret = "false"
                      /\ out' = Unwritten ]_vars

\* C22's case: the err type of an expected parameter has been fetched
C22_Witness ==
    /\ last.op = "wit_expected_err_typedef_get" /\ last.ret = "true"
    /\ out[1] = "td" /\ out[2] = <<"iter", 1, <<2>>>>
    /\ td_deref(out[2]).name = "err"
    /\ KindName(iters[1].item[1]) = "Expected"

RECURSIVE TypeDepth(_)
\* The number of list/expected levels of a type in the type table
TypeDepth(ty) ==
    IF ty.tag # "Id" THEN 0
    ELSE LET kind == iface_types[ty.id] IN
         CASE kind.kind = "List" -> 1 + TypeDepth(kind.ty1)
           [] kind.kind = "Expected" ->
                1 + (IF TypeDepth(kind.ty1) >= TypeDepth(kind.ty2)
                     THEN TypeDepth(kind.ty1) ELSE TypeDepth(kind.ty2))
           [] OTHER -> 0

RECURSIVE ChainOf(_, _)
\* A descriptor of type ty holds the whole chain of subtype boxes of ty
ChainOf(td, ty) ==
    /\ td.ty = ty
    /\ IF ty.tag # "Id" THEN td.subty1 = None /\ td.subty2 = None
       ELSE LET kind == iface_types[ty.id] IN
            CASE kind.kind = "List" ->
                    /\ td.subty1 # None /\ td.subty2 = None
                    /\ ChainOf(td.subty1[1], kind.ty1)
              [] kind.kind = "Expected" ->
                    /\ td.subty1 # None /\ td.subty2 # None
                    /\ ChainOf(td.subty1[1], kind.ty1)
                    /\ ChainOf(td.subty2[1], kind.ty2)
              [] OTHER -> td.subty1 = None /\ td.subty2 = None

\* C24: the resolver ends on the (finite, acyclic) type table and builds the
\* whole chain at once: every descriptor owned by a cursor or by a function
\* holds, from its construction on, a subtype box for every list/expected
\* level of its type down to the first type that is neither, and its longest
\* path of boxes is as long as the type is deep.
C24_FullChain ==
    \A h \in TdArgs \ {NULLTD} :
        h[3] = <<>> =>
           LET td == td_deref(h) IN
           /\ ChainOf(td, td.ty)
           /\ \A p \in td_paths(td) : Len(p) <= TypeDepth(td.ty)
           /\ \E p \in td_paths(td) : Len(p) = TypeDepth(td.ty)

\* C24's case: a next call has built the descriptor of a parameter of type
\* list of list of record, two levels deep
C24_Witness ==
    /\ last.op = "wit_typedef_iter_next" /\ last.ret = "true"
    /\ iters[1].item # None
    /\ TypeDepth(iters[1].item[1].ty) = 2
    /\ KindName(td_deref(<<"iter", 1, <<1, 1>>>>)) = "Record"

\* C25: a cursor visits its sequence in declaration order, no element
\* skipped and none repeated: after j successful next calls, j below the
\* length, the item carries the name and the type of the element at position
\* j, for the three cursor kinds; the field walk of record point yields x,
\* then y, both s32.
C25_DeclarationOrder ==
    \A h \in IterIds :
        (iters[h] # NoIter /\ calls[h] < Len(iters[h].seq)) =>
            LET it == iters[h]
                j == calls[h]
            IN /\ it.item # None
               /\ it.item[1] = WITTypeDef(it.seq[j + 1].name, it.seq[j + 1].ty)
               /\ (it.kind = "field" /\ it.seq = iface_types[1].elems)
                     => /\ Len(it.seq) = 2
                        /\ it.item[1].name = (IF j = 0 THEN "x" ELSE "y")
                        /\ WITType(it.item[1].ty) = "S32"

\* C25's case: the field cursor of record point has moved from x to y
C25_Witness ==
    \E h \in IterIds :
        /\ iters[h].kind = "field" /\ iters[h].seq = iface_types[1].elems
        /\ calls[h] = 1 /\ iters[h].item # None /\ iters[h].item[1].name = "y"
        /\ last.op = "wit_field_iter_next" /\ last.ret = "true"

\* C26: the error state is kept per session: a call made with one session,
\* whether it fails, succeeds, panics or is wit_error_clear, leaves what
\* wit_error_get returns for every other session as it was, in any
\* interleaving of the calls of two sessions.
C26_SessionIsolation ==
    [][ \A b \in Sessions :
           b # last'.s => wit_error_get(b)' = wit_error_get(b) ]_vars

\* C26's case: a call has just failed on one session while the other holds
\* a different error of its own
C26_Witness ==
    \E a, b \in Sessions :
        /\ a # b
        /\ last.s = a /\ last.ret = "false"
        /\ wit_error_get(a) # None /\ wit_error_get(b) # None
        /\ wit_error_get(a) # wit_error_get(b)

\* C27: in every document wit_parse has returned, the descriptor that
\* wit_func_get_by_index returns for i below the function count has the
\* stored index i, with the result and the signature of the i-th function of
\* the interface, and the name map holds one descriptor per function.
C27_IndexedDescriptors ==
    /\ wit.live =>
          /\ Cardinality(DOMAIN wit.funcs) = Len(wit.functions)
          /\ \A i \in 0 .. Len(wit.functions) - 1 :
                LET f == wit.functions[i + 1] IN
                /\ f.name \in DOMAIN wit.funcs
                /\ wit.funcs[f.name].index = i
                /\ wit.funcs[f.name].res = WITTypeDef("", f.result)
                /\ wit.funcs[f.name].sig = f.sig
    /\ (last.op = "wit_func_get_by_index" /\ last.ret = "true")
          => /\ out[1] = "func"
             /\ wit.funcs[out[2]].index = last.args[2]

\* The operations on one cursor, named by their first argument
CursorOps ==
    NextOps \cup AtOps \cup DeleteOps
    \cup {"wit_typedef_iter_off", "wit_field_iter_off", "wit_case_iter_off"}

\* C28: cursors are independent, those over one source included: a next, at,
\* off or delete call on one cursor leaves the position and the item of
\* every other cursor as they were, in any interleaving of the calls.
C28_CursorsIndependent ==
    [][ last'.op \in CursorOps =>
           \A g \in IterIds :
              g # last'.args[1] => iters'[g] = iters[g] /\ calls'[g] = calls[g] ]_vars

\* C28's case: of two walks of one function, one has been moved to its
\* third parameter while the other still stands on the first
C28_Witness ==
    \E h, g \in IterIds :
        /\ h # g
        /\ iters[h].kind = "typedef" /\ iters[g].kind = "typedef"
        /\ iters[h].seq = iters[g].seq /\ Len(iters[h].seq) = 3
        /\ calls[h] = 2 /\ calls[g] = 0
        /\ iters[h].item # None /\ iters[h].item[1].name = "c"
        /\ iters[g].item # None /\ iters[g].item[1].name = "a"
        /\ last.op = "wit_typedef_iter_next" /\ last.args[1] = h /\ last.ret = "true"

====
